---- MODULE Spec2Model ----
(***************************************************************************)
(* Model of mdbook-codetags (src/src/preprocessor.rs): the tag catalog     *)
(* built from the documentation, the per-file interval stack parser and    *)
(* structural scanner, the snippet builder with its context computation,   *)
(* and the rendering of each chapter.                                      *)
(*                                                                         *)
(* Texts are abstracted by what the program's regular expressions and      *)
(* string tests see of them: a source line is a marker (start, end, block  *)
(* start, block close) or a content line described by the outcome of each  *)
(* test the scanner runs on it; a documentation line is a reference (name  *)
(* and options) or any other line.  The content of a line is its position  *)
(* <<file, physical line>>, so that every line is told apart.  Indices     *)
(* stored by the program (chapter, first_line, last_line) keep the         *)
(* program's 0-based values.                                               *)
(***************************************************************************)
EXTENDS Integers, Sequences, FiniteSets, TLC

\* ------------------------------------------------------------------ bounds
\* Lines read over all the source files of one run.
MaxLines == 5
\* Source files walked in one run.
MaxFiles == 2
\* Nodes of a Location chain drawn for the pure checks of pop_to_depth.
MaxChain == 3
\* Depth arguments drawn for pop_to_depth (the program passes 0, 1, 2).
MaxPopDepth == 3
\* Book items and references per item of the catalog specification.
MaxItems == 2
MaxRefs == 2
\* Nodes of a Location chain drawn for the pure checks of to_html.
MaxHtmlChain == 3
\* Lines of each of the two files walked in both orders.
MaxOrderLines == 3
\* Lines read in one run over the files made for compute_context.
MaxCtxLines == 9

\* ------------------------------------------------------- program constants
\* The ordinals of the two synthetic regions.
OmitIndex == 9998
NotYetIndex == 9999
\* compute_context stops looking for a preceding location after 5 lines.
MaxChecked == 4

StaticName == "$static$"
None == <<>>

\* ------------------------------------------------------------- Location
\* A Location chain is the sequence of its nodes, root first: the last node
\* is the Location itself, the ones before it are its parents.
Node(kind, name, decl) == [kind |-> kind, name |-> name, decl |-> decl]

depth(c) == Len(c)

is_file(c) == c[Len(c)].kind = "file"

is_function(c) ==
    c[Len(c)].kind \in {"constructor", "function", "method"}

parent(c) == SubSeq(c, 1, Len(c) - 1)

\* The vector pop_to_depth collects: element i (0-based) is the Location i
\* parents above self, so locations[0] is self and the last one is the root.
locations(c) == [i \in 0 .. Len(c) - 1 |-> SubSeq(c, 1, Len(c) - i)]

\* pop_to_depth counting the depth to keep from 1 instead of from 0.
pop_to_depth_from_one(c, d) ==
    IF Len(c) < d + 1 THEN c ELSE SubSeq(c, 1, IF d = 0 THEN 1 ELSE d)

pop_to_depth(c, d) ==
    IF Len(c) < d + 1
    THEN c
    ELSE locations(c)[Len(c) - d - 1]

\* ------------------------------------------------------------- Option
Some(x) == <<x>>
is_some(o) == o # None
unwrap(o) == o[1]

\* ------------------------------------------------------------ CodeBook
\* Documentation: an item is [name, content]; a content line is a reference
\* (ref = TRUE, the captured name and its option list) or any other line.
\* An option is [k, n]: k is "no location", "before", "after" or "other",
\* n the parsed number, or -1 for a text that does not parse as a number.
CodeTag(chapter, name, index, nl, before, after) ==
    [chapter |-> chapter, name |-> name, index |-> index,
     no_location |-> nl, before_count |-> before, after_count |-> after]

Chapter(name, tags) == [name |-> name, code_tags |-> tags]

RECURSIVE OptValue(_, _, _)
\* The value the option loop leaves in before_count / after_count (k), the
\* last option of that kind winning; init is the value set before the loop.
OptValue(opts, k, init) ==
    IF opts = <<>> THEN init
    ELSE OptValue(Tail(opts), k, IF Head(opts).k = k THEN Head(opts).n ELSE init)

OptNoLocation(opts) == \E i \in 1 .. Len(opts) : opts[i].k = "no location"

\* parse().unwrap() panics on an option whose count is not a number.
OptPanics(opts) ==
    \E i \in 1 .. Len(opts) : opts[i].k \in {"before", "after"} /\ opts[i].n < 0

position(chapters, name) ==
    IF \E i \in 1 .. Len(chapters) : chapters[i].name = name
    THEN Some(CHOOSE i \in 1 .. Len(chapters) :
                 /\ chapters[i].name = name
                 /\ \A j \in 1 .. i - 1 : chapters[j].name # name)
    ELSE None

RECURSIVE AddRefs(_, _, _, _)
\* The loop over the references of one item (lines 514-552); index restarts
\* at 0 for every item and grows by one per reference.
AddRefs(chapters, itemName, refs, index) ==
    IF refs = <<>> THEN chapters
    ELSE LET r == Head(refs)
             pos == position(chapters, itemName)
             chs == IF is_some(pos) THEN chapters
                    ELSE Append(chapters, Chapter(itemName, <<>>))
             ci == IF is_some(pos) THEN unwrap(pos) ELSE Len(chs)
             tag == CodeTag(ci - 1, r.name, index, OptNoLocation(r.opts),
                            OptValue(r.opts, "before", 0),
                            OptValue(r.opts, "after", 0))
             chs2 == [chs EXCEPT ![ci].code_tags = Append(@, tag)]
         IN AddRefs(chs2, itemName, Tail(refs), index + 1)

Refs(content) == SelectSeq(content, LAMBDA l : l.ref)

RECURSIVE AddItems(_, _)
AddItems(chapters, items) ==
    IF items = <<>> THEN chapters
    ELSE AddItems(AddRefs(chapters, Head(items).name, Refs(Head(items).content), 0),
                  Tail(items))

StaticChapter(n) ==
    Chapter(StaticName,
            << CodeTag(n, "omit", OmitIndex, FALSE, 0, 0),
               CodeTag(n, "not-yet", NotYetIndex, FALSE, 0, 0) >>)

collect_code_tags(bk) ==
    LET chapters == AddItems(<<>>, bk)
    IN Append(chapters, StaticChapter(Len(chapters)))

CollectPanics(bk) ==
    \E i \in 1 .. Len(bk) : \E j \in 1 .. Len(bk[i].content) :
        bk[i].content[j].ref /\ OptPanics(bk[i].content[j].opts)

\* Chapter::find_code_tag: the first tag of the chapter with that name.
chapter_find_code_tag(ch, name) ==
    IF \E i \in 1 .. Len(ch.code_tags) : ch.code_tags[i].name = name
    THEN Some(ch.code_tags[CHOOSE i \in 1 .. Len(ch.code_tags) :
                 /\ ch.code_tags[i].name = name
                 /\ \A j \in 1 .. i - 1 : ch.code_tags[j].name # name])
    ELSE None

find_chapter(cb, name) ==
    LET pos == position(cb, name)
    IN IF is_some(pos) THEN Some(cb[unwrap(pos)]) ELSE None

find_code_tag(cb, chapter, name) ==
    LET ch == find_chapter(cb, chapter)
    IN IF ~is_some(ch) THEN None
       ELSE LET st == chapter_find_code_tag(cb[Len(cb)], name)
            IN IF is_some(st) THEN st
               ELSE chapter_find_code_tag(unwrap(ch), name)

is_before(a, b) ==
    IF a.chapter # b.chapter THEN a.chapter < b.chapter
    ELSE a.index < b.index

\* -------------------------------------------------------- source lines
\* What the scanner's tests see of a content line:
\*   fn    FUNCTION_PATTERN: "no" match, "kw" (the first match starts with
\*         new/return/throw), or "yes"
\*   cq    the line contains // or a double quote
\*   end   the line ends with ";" ("semi"), with "," ("comma") or otherwise
\*   ctor  CONSTRUCTOR_PATTERN matches;  var  VARIABLE_PATTERN matches
\*   ty    the keyword TYPE_PATTERN captured, "" when it does not match
\*   brace the line starts with "}" (0), "  }" (1), "    }" (2), else -1
\*   pe    the line contains "class ParseError"
Feat(fn, cq, end, ctor, ty, var, brace, pe) ==
    [fn |-> fn, cq |-> cq, end |-> end, ctor |-> ctor, ty |-> ty,
     var |-> var, brace |-> brace, pe |-> pe]

NoFeat == Feat("no", FALSE, "other", FALSE, "", FALSE, -1, FALSE)

\* Marker lines.  ch = "" is a marker without chapter name.  A marker line
\* matches none of the scanner's patterns (chapter names holding a type
\* keyword are left out).
SrcLine(t, ch, name, ech, ename, f) ==
    [t |-> t, ch |-> ch, name |-> name, ech |-> ech, ename |-> ename, f |-> f]

StartMarker(ch, name) == SrcLine("start", ch, name, "", "", NoFeat)
EndMarker(ch, name) == SrcLine("end", ch, name, "", "", NoFeat)
BlockMarker(ch, name, ech, ename) == SrcLine("block", ch, name, ech, ename, NoFeat)
BlockClose == SrcLine("close", "", "", "", "", NoFeat)
Content(f) == SrcLine("content", "", "", "", "", f)

PlainLine == Content(NoFeat)
StatementLine == Content(Feat("no", FALSE, "semi", FALSE, "", FALSE, -1, FALSE))
MethodDefLine == Content(Feat("yes", FALSE, "other", FALSE, "", FALSE, -1, FALSE))
MethodDeclLine == Content(Feat("yes", FALSE, "semi", FALSE, "", FALSE, -1, FALSE))
MethodCommaLine == Content(Feat("yes", FALSE, "comma", FALSE, "", FALSE, -1, FALSE))
CallInCommentLine == Content(Feat("yes", TRUE, "other", FALSE, "", FALSE, -1, FALSE))
ConstructorLine == Content(Feat("no", FALSE, "other", TRUE, "", FALSE, -1, FALSE))
ClassLine == Content(Feat("no", FALSE, "other", FALSE, "class", FALSE, -1, FALSE))
EnumLine == Content(Feat("no", FALSE, "other", FALSE, "enum", FALSE, -1, FALSE))
InterfaceLine == Content(Feat("no", FALSE, "other", FALSE, "interface", FALSE, -1, FALSE))
ClassInCommentLine == Content(Feat("no", TRUE, "other", FALSE, "class", FALSE, -1, FALSE))
VariableLine == Content(Feat("no", FALSE, "semi", FALSE, "", TRUE, -1, FALSE))
VariableNewLine == Content(Feat("kw", FALSE, "semi", FALSE, "", TRUE, -1, FALSE))
Close0Line == Content(Feat("no", FALSE, "other", FALSE, "", FALSE, 0, FALSE))
Close1Line == Content(Feat("no", FALSE, "other", FALSE, "", FALSE, 1, FALSE))
Close2Line == Content(Feat("no", FALSE, "other", FALSE, "", FALSE, 2, FALSE))
ParseErrorLine == Content(Feat("no", FALSE, "other", FALSE, "class", FALSE, -1, TRUE))

\* ---------------------------------------------------- SourceFileParser
\* update_location_before returning at once for a line that holds // or
\* a double quote.
update_location_before_suppress_all(loc, line, nextSemi, id) ==
    LET f == line.f
    IN IF f.cq THEN loc
       ELSE IF f.fn = "yes"
       THEN Append(loc, Node("method", id,
                   f.end = "semi" \/ (f.end = "comma" /\ nextSemi)))
       ELSE IF f.ctor THEN Append(loc, Node("constructor", id, FALSE))
       ELSE IF f.ty # "" THEN Append(loc, Node(f.ty, id, FALSE))
       ELSE IF f.var THEN Append(loc, Node("variable", id, FALSE))
       ELSE loc

\* update_location_before: id names the Location a declaration opens;
\* nextSemi tells whether the following line ends with ";".
update_location_before(loc, line, nextSemi, id) ==
    LET f == line.f
    IN IF f.fn = "yes" /\ ~f.cq
       THEN Append(loc, Node("method", id,
                   f.end = "semi" \/ (f.end = "comma" /\ nextSemi)))
       ELSE IF f.ctor THEN Append(loc, Node("constructor", id, FALSE))
       ELSE IF f.ty # ""
            THEN IF ~f.cq THEN Append(loc, Node(f.ty, id, FALSE)) ELSE loc
       ELSE IF f.var THEN Append(loc, Node("variable", id, FALSE))
       ELSE loc

\* parent.clone().unwrap(): None when the Location is a root.
ParentOrPanic(r) ==
    IF r.panic \/ Len(r.loc) < 2 THEN [panic |-> TRUE, loc |-> r.loc]
    ELSE [panic |-> FALSE, loc |-> parent(r.loc)]

\* update_location_after leaving a variable as the cursor.
update_location_after_keep_variable(loc, line) ==
    LET f == line.f
        l1 == IF f.brace = 0 THEN pop_to_depth(loc, 0)
              ELSE IF f.brace = 1 THEN pop_to_depth(loc, 1)
              ELSE IF f.brace = 2 THEN pop_to_depth(loc, 2)
              ELSE loc
        r1 == [panic |-> FALSE, loc |-> l1]
        r2 == IF r1.loc[Len(r1.loc)].decl THEN ParentOrPanic(r1) ELSE r1
        r4 == IF ~r2.panic /\ f.pe THEN ParentOrPanic(r2) ELSE r2
    IN r4

update_location_after(loc, line) ==
    LET f == line.f
        l1 == IF f.brace = 0 THEN pop_to_depth(loc, 0)
              ELSE IF f.brace = 1 THEN pop_to_depth(loc, 1)
              ELSE IF f.brace = 2 THEN pop_to_depth(loc, 2)
              ELSE loc
        r1 == [panic |-> FALSE, loc |-> l1]
        r2 == IF r1.loc[Len(r1.loc)].decl THEN ParentOrPanic(r1) ELSE r1
        r3 == IF ~r2.panic /\ r2.loc[Len(r2.loc)].kind = "variable"
              THEN ParentOrPanic(r2) ELSE r2
        r4 == IF ~r3.panic /\ f.pe THEN ParentOrPanic(r3) ELSE r3
    IN r4

\* A frame of the interval stack.
ParseState(start, end) == [start |-> start, end |-> end]

last(stk) == stk[Len(stk)]

StateResult(panic, marker, stk) == [panic |-> panic, marker |-> marker, states |-> stk]
Panicked == StateResult(TRUE, TRUE, <<>>)

\* pop taking the oldest frame off the stack instead of the newest.
pop_first(stk) == IF stk = <<>> THEN stk ELSE Tail(stk)

\* SourceFileParser::pop: Vec::pop, which leaves an empty stack as it is.
pop(stk) == IF stk = <<>> THEN stk ELSE SubSeq(stk, 1, Len(stk) - 1)

\* push resolving a name without chapter in the chapter of the oldest
\* open interval instead of the innermost one.
push_outermost(cb, stk, start_chapter_name, start_name, end) ==
    IF start_chapter_name = "" /\ stk = <<>> THEN Panicked
    ELSE LET chn == IF start_chapter_name # "" THEN start_chapter_name
                    ELSE cb[stk[1].start.chapter + 1].name
             st == find_code_tag(cb, chn, start_name)
             en == IF is_some(end)
                   THEN find_code_tag(cb, unwrap(end)[1], unwrap(end)[2])
                   ELSE None
         IN IF ~is_some(st) THEN Panicked
            ELSE IF is_some(end) /\ ~is_some(en) THEN Panicked
            ELSE StateResult(FALSE, TRUE,
                     Append(stk, ParseState(unwrap(st),
                                 IF is_some(end) THEN en ELSE None)))

\* push taking the first chapter of the catalog for a name without
\* chapter read while no interval is open.
push_default_chapter(cb, stk, start_chapter_name, start_name, end) ==
    LET chn == IF start_chapter_name # "" THEN start_chapter_name
               ELSE IF stk = <<>> THEN cb[1].name
               ELSE cb[last(stk).start.chapter + 1].name
        st == find_code_tag(cb, chn, start_name)
        en == IF is_some(end)
              THEN find_code_tag(cb, unwrap(end)[1], unwrap(end)[2])
              ELSE None
    IN IF ~is_some(st) THEN Panicked
       ELSE IF is_some(end) /\ ~is_some(en) THEN Panicked
       ELSE StateResult(FALSE, TRUE,
                Append(stk, ParseState(unwrap(st),
                            IF is_some(end) THEN en ELSE None)))

\* SourceFileParser::push; end is None or Some(<<chapter, name>>).
push(cb, stk, start_chapter_name, start_name, end) ==
    IF start_chapter_name = "" /\ stk = <<>> THEN Panicked
    ELSE LET chn == IF start_chapter_name # "" THEN start_chapter_name
                    ELSE cb[last(stk).start.chapter + 1].name
             st == find_code_tag(cb, chn, start_name)
             en == IF is_some(end)
                   THEN find_code_tag(cb, unwrap(end)[1], unwrap(end)[2])
                   ELSE None
         IN IF ~is_some(st) THEN Panicked
            ELSE IF is_some(end) /\ ~is_some(en) THEN Panicked
            ELSE StateResult(FALSE, TRUE,
                     Append(stk, ParseState(unwrap(st),
                                 IF is_some(end) THEN en ELSE None)))

RECURSIVE PopTo(_, _)
PopTo(stk, name) ==
    IF stk = <<>> \/ last(stk).start.name = name THEN stk
    ELSE PopTo(pop(stk), name)

\* An end marker that pops down to the nearest interval carrying its name.
end_marker_resync(cb, stk, line) ==
    IF PopTo(stk, line.name) = <<>> THEN Panicked
    ELSE StateResult(FALSE, TRUE, pop(PopTo(stk, line.name)))

\* The end-marker branch of update_state (lines 446-459).
end_marker(cb, stk, line) ==
    IF stk = <<>> THEN Panicked
    ELSE IF /\ line.ch # ""
            /\ cb[last(stk).start.chapter + 1].name # StaticName
            /\ cb[last(stk).start.chapter + 1].name # line.ch
         THEN Panicked
    ELSE IF last(stk).start.name # line.name THEN Panicked
    ELSE StateResult(FALSE, TRUE, pop(stk))

update_state(cb, stk, line) ==
    IF line.t = "start" THEN push(cb, stk, line.ch, line.name, None)
    ELSE IF line.t = "end" THEN end_marker(cb, stk, line)
    ELSE IF line.t = "block"
         THEN push(cb, stk, line.ch, line.name, Some(<<line.ech, line.ename>>))
    ELSE IF line.t = "close" THEN StateResult(FALSE, TRUE, pop(stk))
    ELSE StateResult(FALSE, FALSE, stk)

SourceLine(content, loc, start, end) ==
    [content |-> content, location |-> loc, start |-> start, end |-> end]

RootLocation(file) == << Node("file", <<file, 0>>, FALSE) >>

\* -------------------------------------------------------------- Snippet
\* is_present_at with the two regions of the first test exchanged.
is_present_at_swapped(line, tag) ==
    IF is_before(line.start, tag) THEN FALSE
    ELSE IF is_some(line.end) /\ ~is_before(tag, unwrap(line.end)) THEN FALSE
    ELSE TRUE

\* is_present_at with the negation of the second test left out.
is_present_at_no_not(line, tag) ==
    IF is_before(tag, line.start) THEN FALSE
    ELSE IF is_some(line.end) /\ is_before(tag, unwrap(line.end)) THEN FALSE
    ELSE TRUE

\* is_present_at without the test on the line's start region.
is_present_at_any_start(line, tag) ==
    IF is_some(line.end) /\ ~is_before(tag, unwrap(line.end)) THEN FALSE
    ELSE TRUE

is_present_at(line, tag) ==
    IF is_before(tag, line.start) THEN FALSE
    ELSE IF is_some(line.end) /\ ~is_before(tag, unwrap(line.end)) THEN FALSE
    ELSE TRUE

Snippet(code_tag) ==
    [code_tag |-> code_tag, location |-> None, preceding_location |-> None,
     first_line |-> 0, last_line |-> 0,
     context_before |-> <<>>, context_after |-> <<>>,
     added |-> <<>>, removed |-> <<>>]

\* add_line pushing the content inside the test for the first line only.
add_line_first_only(s, line_index, line) ==
    LET s1 == IF s.added = <<>>
              THEN [s EXCEPT !.location = line.location, !.first_line = line_index,
                             !.added = Append(@, line.content)]
              ELSE s
    IN [s1 EXCEPT !.last_line = line_index]

add_line(s, line_index, line) ==
    LET s1 == IF s.added = <<>>
              THEN [s EXCEPT !.location = line.location, !.first_line = line_index]
              ELSE s
    IN [s1 EXCEPT !.added = Append(@, line.content), !.last_line = line_index]

remove_line(s, line_index, line) ==
    [s EXCEPT !.removed = Append(@, line.content), !.last_line = line_index]

RECURSIVE ContextBefore_gt(_, _, _, _)
\* The first loop of compute_context comparing with > instead of >=.
ContextBefore_gt(s, lines, ii, acc) ==
    IF ii >= s.first_line THEN acc
    ELSE IF Len(acc) > s.code_tag.before_count THEN acc
    ELSE LET line == lines[(s.first_line - 1 - ii) + 1]
         IN IF ~is_present_at(line, s.code_tag)
            THEN ContextBefore_gt(s, lines, ii + 1, acc)
            ELSE ContextBefore_gt(s, lines, ii + 1, <<line.content>> \o acc)

RECURSIVE ContextBefore_append(_, _, _, _)
\* The first loop pushing each line at the end of context_before.
ContextBefore_append(s, lines, ii, acc) ==
    IF ii >= s.first_line THEN acc
    ELSE IF Len(acc) >= s.code_tag.before_count THEN acc
    ELSE LET line == lines[(s.first_line - 1 - ii) + 1]
         IN IF ~is_present_at(line, s.code_tag)
            THEN ContextBefore_append(s, lines, ii + 1, acc)
            ELSE ContextBefore_append(s, lines, ii + 1, Append(acc, line.content))

RECURSIVE ContextBefore(_, _, _, _)
\* The first loop of compute_context (lines 185-195); ii counts the
\* iterations, lines is file.lines, 0-based index i is lines[i + 1].
ContextBefore(s, lines, ii, acc) ==
    IF ii >= s.first_line THEN acc
    ELSE IF Len(acc) >= s.code_tag.before_count THEN acc
    ELSE LET line == lines[(s.first_line - 1 - ii) + 1]
         IN IF ~is_present_at(line, s.code_tag)
            THEN ContextBefore(s, lines, ii + 1, acc)
            ELSE ContextBefore(s, lines, ii + 1, <<line.content>> \o acc)

RECURSIVE ContextAfter(_, _, _, _)
\* The second loop (lines 197-205), i from last_line + 1.
ContextAfter(s, lines, i, acc) ==
    IF i >= Len(lines) THEN acc
    ELSE IF Len(acc) >= s.code_tag.after_count THEN acc
    ELSE LET line == lines[i + 1]
         IN IF is_present_at(line, s.code_tag)
            THEN ContextAfter(s, lines, i + 1, Append(acc, line.content))
            ELSE ContextAfter(s, lines, i + 1, acc)

RECURSIVE Preceding_ge(_, _, _, _, _)
\* The third loop keeping the farthest of the deepest lines.
Preceding_ge(s, lines, ii, checked_lines, prec) ==
    IF ii >= s.first_line THEN prec
    ELSE IF checked_lines > MaxChecked THEN prec
    ELSE LET line == lines[(s.first_line - 1 - ii) + 1]
         IN IF ~is_present_at(line, s.code_tag)
            THEN Preceding_ge(s, lines, ii + 1, checked_lines, prec)
            ELSE Preceding_ge(s, lines, ii + 1, checked_lines + 1,
                     IF prec = None \/ depth(line.location) >= depth(prec)
                     THEN line.location ELSE prec)

RECURSIVE Preceding(_, _, _, _, _)
\* The third loop (lines 209-225): at most 5 present lines are looked at,
\* the deepest Location wins, the nearest one among equals.
Preceding(s, lines, ii, checked_lines, prec) ==
    IF ii >= s.first_line THEN prec
    ELSE IF checked_lines > MaxChecked THEN prec
    ELSE LET line == lines[(s.first_line - 1 - ii) + 1]
         IN IF ~is_present_at(line, s.code_tag)
            THEN Preceding(s, lines, ii + 1, checked_lines, prec)
            ELSE Preceding(s, lines, ii + 1, checked_lines + 1,
                     IF prec = None \/ depth(line.location) > depth(prec)
                     THEN line.location ELSE prec)

RECURSIVE HasCodeBefore(_, _, _, _)
HasCodeBefore(s, lines, ii, has) ==
    IF ii >= s.first_line THEN has
    ELSE IF has THEN has
    ELSE HasCodeBefore(s, lines, ii + 1,
             is_present_at(lines[(s.first_line - 1 - ii) + 1], s.code_tag))

RECURSIVE HasCodeAfter(_, _, _, _)
HasCodeAfter(s, lines, i, has) ==
    IF i >= Len(lines) THEN has
    ELSE IF has THEN has
    ELSE HasCodeAfter(s, lines, i + 1, is_present_at(lines[i + 1], s.code_tag))

\* compute_context wrapping the Location whatever comes before it.
compute_context_wrap_always(s, lines) ==
    LET cb == ContextBefore(s, lines, 0, s.context_before)
        ca == ContextAfter(s, lines, s.last_line + 1, s.context_after)
        pr == Preceding(s, lines, 0, 0, s.preceding_location)
        s1 == [s EXCEPT !.context_before = cb, !.context_after = ca,
                        !.preceding_location = pr]
        has_code_after == HasCodeAfter(s1, lines, s1.last_line + 1, ca # <<>>)
    IN [s1 EXCEPT !.location =
           Append(s1.location,
                  Node(IF has_code_after THEN "top" ELSE "new", None, FALSE))]

compute_context(s, lines) ==
    LET cb == ContextBefore(s, lines, 0, s.context_before)
        ca == ContextAfter(s, lines, s.last_line + 1, s.context_after)
        pr == Preceding(s, lines, 0, 0, s.preceding_location)
        s1 == [s EXCEPT !.context_before = cb, !.context_after = ca,
                        !.preceding_location = pr]
        has_code_before == HasCodeBefore(s1, lines, 0, cb # <<>>)
        has_code_after == HasCodeAfter(s1, lines, s1.last_line + 1, ca # <<>>)
    IN IF ~has_code_before
       THEN [s1 EXCEPT !.location =
                Append(s1.location,
                       Node(IF has_code_after THEN "top" ELSE "new", None, FALSE))]
       ELSE s1

\* HashMap insert / extend: m with key k bound to v.
Insert(m, k, v) == [x \in DOMAIN m \cup {k} |-> IF x = k THEN v ELSE m[x]]

\* The map of the file taking the place of the global map.
Extend_replace(m, n) == n

\* extend keeping the entry a key already has.
Extend_keep(m, n) ==
    [x \in DOMAIN m \cup DOMAIN n |-> IF x \in DOMAIN m THEN m[x] ELSE n[x]]

Extend(m, n) ==
    [x \in DOMAIN m \cup DOMAIN n |-> IF x \in DOMAIN n THEN n[x] ELSE m[x]]

EmptyMap == [x \in {} |-> None]

RECURSIVE LocalSnippets(_, _, _)
\* The loop over source_file.lines (lines 615-631); line_index is 0-based.
LocalSnippets(lines, line_index, local) ==
    IF line_index >= Len(lines) THEN local
    ELSE LET line == lines[line_index + 1]
             start_name == line.start.name
             l1 == IF start_name \notin DOMAIN local
                   THEN Insert(local, start_name, Snippet(line.start))
                   ELSE local
             l2 == [l1 EXCEPT ![start_name] = add_line(@, line_index, line)]
             l3 == IF is_some(line.end)
                   THEN LET end == unwrap(line.end)
                            l4 == IF end.name \notin DOMAIN l2
                                  THEN Insert(l2, end.name, Snippet(end))
                                  ELSE l2
                        IN [l4 EXCEPT ![end.name] = remove_line(@, line_index, line)]
                   ELSE l2
         IN LocalSnippets(lines, line_index + 1, l3)

\* local_snippets of one file after the compute_context loop (632-634).
FileSnippets(lines) ==
    LET local == LocalSnippets(lines, 0, EmptyMap)
    IN [n \in DOMAIN local |-> compute_context(local[n], lines)]

\* ------------------------------------------------------------- to_html
\* A phrase is [p, a, b]: the rule that produced it and the kind and name
\* it prints.  NoPhrase is a node for which recurse pushes nothing.
Phrase(p, a, b) == [p |-> p, a |-> a, b |-> b]
NoPhrase == Phrase("", "", None)
PanicPhrase == Phrase("panic", "", None)

\* The rule chain with the rule on removed lines tried before the rule on
\* the preceding location.
NodePhrase_removed_first(c, preceding, has_removed) ==
    LET n == c[Len(c)]
        pn == preceding[Len(preceding)]
    IN IF n.kind = "file" THEN Phrase("file", "", n.name)
       ELSE IF n.kind = "new" THEN Phrase("create new file", "", None)
       ELSE IF n.kind = "top" THEN Phrase("add to top of file", "", None)
       ELSE IF n.kind = "class" THEN Phrase("in class", "", n.name)
       ELSE IF is_function(c) /\ has_removed THEN Phrase("kind ()", n.kind, n.name)
       ELSE IF is_function(c) /\ preceding # None /\ preceding = c
            THEN Phrase("in ()", "", n.name)
       ELSE IF parent(c) = preceding /\ ~(preceding # None /\ is_file(preceding))
            THEN IF preceding = None THEN PanicPhrase
                 ELSE Phrase("in kind", pn.kind, pn.name)
       ELSE IF preceding # None /\ preceding = c /\ ~is_file(c)
            THEN Phrase("in kind $name", n.kind, None)
       ELSE IF preceding # None /\ is_function(preceding)
            THEN Phrase("add after ()", "", pn.name)
       ELSE IF ~(preceding = None \/ is_file(preceding))
            THEN Phrase("add after kind", pn.kind, pn.name)
       ELSE NoPhrase

\* The rule chain of recurse (lines 77-97) for the node c (with its parents).
NodePhrase(c, preceding, has_removed) ==
    LET n == c[Len(c)]
        pn == preceding[Len(preceding)]
    IN IF n.kind = "file" THEN Phrase("file", "", n.name)
       ELSE IF n.kind = "new" THEN Phrase("create new file", "", None)
       ELSE IF n.kind = "top" THEN Phrase("add to top of file", "", None)
       ELSE IF n.kind = "class" THEN Phrase("in class", "", n.name)
       ELSE IF is_function(c) /\ preceding # None /\ preceding = c
            THEN Phrase("in ()", "", n.name)
       ELSE IF is_function(c) /\ has_removed THEN Phrase("kind ()", n.kind, n.name)
       ELSE IF parent(c) = preceding /\ ~(preceding # None /\ is_file(preceding))
            THEN IF preceding = None THEN PanicPhrase
                 ELSE Phrase("in kind", pn.kind, pn.name)
       ELSE IF preceding # None /\ preceding = c /\ ~is_file(c)
            THEN Phrase("in kind $name", n.kind, None)
       ELSE IF preceding # None /\ is_function(preceding)
            THEN Phrase("add after ()", "", pn.name)
       ELSE IF ~(preceding = None \/ is_file(preceding))
            THEN Phrase("add after kind", pn.kind, pn.name)
       ELSE NoPhrase

\* recurse: the parents first, then the node itself.
to_html(c, preceding, has_removed) ==
    SelectSeq([k \in 1 .. Len(c) |->
                  NodePhrase(SubSeq(c, 1, k), preceding, has_removed)],
              LAMBDA ph : ph # NoPhrase)

\* ------------------------------------------------------------ rendering
\* A documentation line is [ref, name, opts, text, eol]: text stands for the
\* characters of the line, eol for its terminator ("\n", "\r\n", or "" on
\* a last line without one), which lines() strips.  updated_content is the
\* sequence of the pieces pushed, one per line.
DocLine(text, eol) == [ref |-> FALSE, name |-> "", opts |-> <<>>, text |-> text, eol |-> eol]
DocRef(name, opts, text, eol) == [ref |-> TRUE, name |-> name, opts |-> opts, text |-> text, eol |-> eol]
Opt(k, n) == [k |-> k, n |-> n]

TextOut(line) == [k |-> "text", text |-> line.text, eol |-> "\n"]
NotFoundOut(id) == [k |-> "not found", id |-> id, eol |-> "\n"]
SnippetOut(s) ==
    [k |-> "snippet",
     context_before |-> s.context_before, removed |-> s.removed,
     added |-> s.added, context_after |-> s.context_after,
     location |-> IF s.location # None
                  THEN Some(to_html(s.location, s.preceding_location,
                                    s.removed # <<>>))
                  ELSE None]

\* RenderLine leaving a reference without snippet as it is.
RenderLine_passthrough(snips, line) ==
    IF line.ref /\ line.name \in DOMAIN snips
    THEN SnippetOut(snips[line.name])
    ELSE TextOut(line)

RenderLine(snips, line) ==
    IF line.ref
    THEN IF line.name \in DOMAIN snips
         THEN SnippetOut(snips[line.name])
         ELSE NotFoundOut(line.name)
    ELSE TextOut(line)

RECURSIVE RenderLines_keepref(_, _, _)
\* The loop pushing the line itself after every block as well.
RenderLines_keepref(snips, content, updated_content) ==
    IF content = <<>> THEN updated_content
    ELSE LET line == Head(content)
             blk == Append(updated_content, RenderLine(snips, line))
         IN RenderLines_keepref(snips, Tail(content),
                IF line.ref THEN Append(blk, TextOut(line)) ELSE blk)

RECURSIVE RenderLines(_, _, _)
\* The loop over chapter.content.lines() (lines 646-695), pushing to
\* updated_content.
RenderLines(snips, content, updated_content) ==
    IF content = <<>> THEN updated_content
    ELSE RenderLines(snips, Tail(content),
                     Append(updated_content, RenderLine(snips, Head(content))))

\* The closure of for_each_mut for one chapter (lines 644-697).
RenderChapter(snips, content) == RenderLines(snips, content, <<>>)

RenderPanics(rendered) ==
    \E i \in 1 .. Len(rendered) :
        /\ rendered[i].k = "snippet"
        /\ rendered[i].location # None
        /\ \E j \in 1 .. Len(unwrap(rendered[i].location)) :
               unwrap(rendered[i].location)[j] = PanicPhrase

\* ================================================================ state
VARIABLES
    pc,         \* where run is: "collect", "walk" (between two files),
                \* "parse" (inside a file), "done", "failed"
    book,       \* the documentation: the sequence of its chapters
    code_book,  \* CodeBook.chapters
    file,       \* number of source files opened so far
    nread,      \* source lines read so far, over all files
    src,        \* the lines read of the current (or last) file
    cur,        \* the line read last (the argument of a pure application)
    expect,     \* what update_location_before saw of the following line:
                \* "semi", "nosemi", or "any" when it did not look
    states,     \* SourceFileParser.states, the interval stack
    location,   \* SourceFileParser.location, the scanner's cursor
    lines,      \* SourceFile.lines of the current (or last) file
    snippets,   \* the global snippet map of run
    out,        \* the chapters rendered so far, each its updated_content
    res         \* where a failed run panicked (the result of a pure
                \* application)

vars == << pc, book, code_book, file, nread, src, cur, expect, states,
           location, lines, snippets, out, res >>

\* ----------------------------------------------------------- the inputs
\* Chapter "A" references x, y(1 before, 1 after); chapter "B" references x
\* again, with other budgets; chapter "C" has no reference at all.
BookAB ==
    << [name |-> "A",
        content |-> << DocLine(1, "\n"),
                       DocRef("x", <<>>, 2, "\r\n"),
                       DocRef("y", <<Opt("before", 1), Opt("after", 1)>>, 3, "\n") >>],
       [name |-> "C", content |-> << DocLine(1, "") >>],
       [name |-> "B",
        content |-> << DocRef("x", <<Opt("before", 2)>>, 1, "\n"),
                       DocRef("z", <<Opt("no location", 0)>>, 2, "") >>] >>

\* A chapter that references the name omit itself, and one name twice.
BookOmit ==
    << [name |-> "A",
        content |-> << DocRef("omit", <<Opt("after", 1)>>, 1, "\n"),
                       DocRef("y", <<Opt("other", 0)>>, 2, "\n"),
                       DocRef("y", <<Opt("before", 1)>>, 3, "\n") >>] >>

\* An option whose count is not a number.
BookBadOption ==
    << [name |-> "A",
        content |-> << DocRef("x", <<Opt("before", -1)>>, 1, "\n") >>] >>

Books == {BookAB, BookOmit, BookBadOption}

\* The source lines a file is drawn from.
MarkerLines ==
    {StartMarker("A", "x"), StartMarker("B", "x"),
     StartMarker("", "y"), StartMarker("", "omit"),
     EndMarker("", "x"), EndMarker("", "y"), EndMarker("A", "x"),
     EndMarker("", "omit"),
     BlockMarker("A", "x", "A", "y"), BlockMarker("A", "y", "A", "x"),
     BlockClose}

ContentLines == {PlainLine}

Alphabet == MarkerLines \cup ContentLines

EndsSemi(line) == line.f.end = "semi"

\* update_location_before reads the following line only for a function
\* line that ends with a comma.
LooksAhead(line) == line.f.fn = "yes" /\ ~line.f.cq /\ line.f.end = "comma"

\* ----------------------------------------------------------------- Init
Fresh(b) ==
    /\ pc = "collect"
    /\ book = b
    /\ code_book = <<>>
    /\ file = 0
    /\ nread = 0
    /\ src = <<>>
    /\ cur = None
    /\ expect = "any"
    /\ states = <<>>
    /\ location = None
    /\ lines = <<>>
    /\ snippets = EmptyMap
    /\ out = <<>>
    /\ res = ""

Init == \E b \in Books : Fresh(b)

\* A panic unwinds run: its locals are dropped.  What is kept for the
\* record is the line being read and the interval stack at that moment.
Fail(where, line, stk) ==
    /\ pc' = "failed"
    /\ res' = where
    /\ cur' = line
    /\ states' = stk
    /\ file' = 0
    /\ nread' = 0
    /\ src' = <<>>
    /\ expect' = "any"
    /\ location' = None
    /\ lines' = <<>>
    /\ snippets' = EmptyMap
    /\ out' = <<>>
    /\ UNCHANGED << book, code_book >>

\* -------------------------------------------------------------- actions
\* run, line 581: the catalog.
Collect ==
    /\ pc = "collect"
    /\ IF CollectPanics(book)
       THEN Fail("collect", None, <<>>)
       ELSE /\ code_book' = collect_code_tags(book)
            /\ pc' = "walk"
            /\ UNCHANGED << book, file, nread, src, cur, expect, states,
                            location, lines, snippets, out, res >>

\* The walk yields one more file: a new parser, parse_source_file up to
\* its loop (lines 612-341).
OpenFile ==
    /\ pc = "walk"
    /\ file < MaxFiles
    /\ nread < MaxLines
    /\ file' = file + 1
    /\ pc' = "parse"
    /\ states' = <<>>
    /\ location' = RootLocation(file + 1)
    /\ lines' = <<>>
    /\ src' = <<>>
    /\ expect' = "any"
    /\ UNCHANGED << book, code_book, nread, cur, snippets, out, res >>

\* One iteration of the loop of parse_source_file (lines 342-355).
ParseLineUpTo(line, max) ==
    /\ pc = "parse"
    /\ nread < max
    /\ expect = "semi" => EndsSemi(line)
    /\ expect = "nosemi" => ~EndsSemi(line)
    /\ \E nextSemi \in (IF LooksAhead(line) THEN BOOLEAN ELSE {FALSE}) :
         LET id == << file, Len(src) + 1 >>
             loc1 == update_location_before(location, line, nextSemi, id)
             st == update_state(code_book, states, line)
             after == update_location_after(loc1, line)
         IN IF st.panic THEN Fail("update_state", line, states)
            ELSE IF ~st.marker /\ st.states = <<>>
                 THEN Fail("parse_source_file", line, states)
            ELSE IF after.panic THEN Fail("update_location_after", line, states)
            ELSE /\ states' = st.states
                 /\ lines' = IF st.marker THEN lines
                             ELSE Append(lines,
                                      SourceLine(id, loc1, last(st.states).start,
                                                 last(st.states).end))
                 /\ location' = after.loc
                 /\ src' = Append(src, line)
                 /\ cur' = line
                 /\ nread' = nread + 1
                 /\ expect' = IF ~LooksAhead(line) THEN "any"
                              ELSE IF nextSemi THEN "semi" ELSE "nosemi"
                 /\ UNCHANGED << pc, book, code_book, file, snippets, out, res >>

ParseLine(line) == ParseLineUpTo(line, MaxLines)

\* The end of the file: the snippets of the file (lines 614-635).
EndFile ==
    /\ pc = "parse"
    /\ expect # "semi"
    /\ snippets' = Extend(snippets, FileSnippets(lines))
    /\ pc' = "walk"
    /\ UNCHANGED << book, code_book, file, nread, src, cur, expect, states,
                    location, lines, out, res >>

RECURSIVE RenderBook(_, _, _)
\* for_each_mut (lines 643-698): the closure runs for every chapter in
\* turn; a panic in one of them ends the run.
RenderBook(snips, items, done) ==
    IF items = <<>> THEN [panic |-> FALSE, out |-> done]
    ELSE LET rendered == RenderChapter(snips, Head(items).content)
         IN IF RenderPanics(rendered) THEN [panic |-> TRUE, out |-> done]
            ELSE RenderBook(snips, Tail(items), Append(done, rendered))

\* The walk is over: every chapter is rendered and the book returned
\* (lines 642-700).
Render ==
    /\ pc = "walk"
    /\ LET r == RenderBook(snippets, book, <<>>)
       IN IF r.panic
          THEN Fail("render", None, <<>>)
          ELSE /\ out' = r.out
               /\ pc' = "done"
               /\ UNCHANGED << book, code_book, file, nread, src, cur, expect,
                               states, location, lines, snippets, res >>

Next ==
    \/ Collect
    \/ OpenFile
    \/ \E line \in Alphabet : ParseLine(line)
    \/ EndFile
    \/ Render

Spec == Init /\ [][Next]_vars

\* ------------------------------------------- pop_to_depth on its own
\* The chains of at most MaxChain nodes under a file root.
InnerNodes(k) ==
    { Node(kind, <<1, k>>, FALSE) : kind \in {"class", "method", "variable"} }

RECURSIVE Chains(_)
Chains(n) ==
    IF n = 1 THEN { RootLocation(1) }
    ELSE Chains(n - 1) \cup
         { Append(c, x) : c \in { c \in Chains(n - 1) : Len(c) = n - 1 },
                          x \in InnerNodes(n - 1) }

InitLoc ==
    /\ pc = "pop"
    /\ cur \in [c : Chains(MaxChain), d : 0 .. MaxPopDepth]
    /\ res = None
    /\ book = <<>> /\ code_book = <<>> /\ file = 0 /\ nread = 0
    /\ src = <<>> /\ expect = "any" /\ states = <<>> /\ location = None
    /\ lines = <<>> /\ snippets = EmptyMap /\ out = <<>>

Others == << book, code_book, file, nread, src, expect, states, location,
             lines, snippets, out >>

\* pop_to_depth applied to the drawn chain,
PopOnce ==
    /\ pc = "pop"
    /\ res' = pop_to_depth(cur.c, cur.d)
    /\ pc' = "popped"
    /\ UNCHANGED << cur, Others >>

\* and applied to its own result.
PopAgain ==
    /\ pc = "popped"
    /\ res' = pop_to_depth(res, cur.d)
    /\ pc' = "popped twice"
    /\ UNCHANGED << cur, Others >>

NextLoc == PopOnce \/ PopAgain

SpecLoc == InitLoc /\ [][NextLoc]_vars

\* ------------------------------------------- the catalog on its own
RefChoices ==
    { DocRef(n, o, 1, "\n") : n \in {"x", "omit"},
                              o \in { <<>>, <<Opt("before", 1)>> } }

RECURSIVE SeqsUpTo(_, _)
\* The sequences of at most n elements of S.
SeqsUpTo(S, n) ==
    IF n = 0 THEN { <<>> }
    ELSE SeqsUpTo(S, n - 1) \cup
         { Append(q, x) : q \in { q \in SeqsUpTo(S, n - 1) : Len(q) = n - 1 },
                          x \in S }

CatItems ==
    { [name |-> n, content |-> c] : n \in {"A", "B"},
                                    c \in SeqsUpTo(RefChoices, MaxRefs) }

CatBooks == SeqsUpTo(CatItems, MaxItems)

\* The chapter names and region names a marker may carry: "C" is a chapter
\* without references, "u" a name no chapter references.
LookupChapters == {"A", "B", "C", StaticName}
LookupNames == {"x", "omit", "not-yet", "u"}

InitCat == \E b \in CatBooks : Fresh(b)

\* find_code_tag as push calls it.
Lookup ==
    /\ pc = "walk"
    /\ \E ch \in LookupChapters, name \in LookupNames :
          /\ cur' = << ch, name >>
          /\ res' = find_code_tag(code_book, ch, name)
    /\ pc' = "found"
    /\ UNCHANGED Others

NextCat == Collect \/ Lookup

SpecCat == InitCat /\ [][NextCat]_vars

\* ------------------------------------ the structural scanner at work
\* The same run over files with few markers and every kind of content
\* line the scanner tells apart.
ScanLines ==
    {StartMarker("A", "x"), StartMarker("", "y"), EndMarker("", "y"),
     PlainLine, StatementLine, MethodDefLine, MethodDeclLine, MethodCommaLine,
     CallInCommentLine, ConstructorLine, ClassLine, EnumLine,
     ClassInCommentLine, VariableLine, VariableNewLine,
     Close0Line, Close1Line, Close2Line, ParseErrorLine}

InitScan == Fresh(BookAB)

NextScan ==
    \/ Collect
    \/ OpenFile
    \/ \E line \in ScanLines : ParseLine(line)
    \/ EndFile
    \/ Render

SpecScan == InitScan /\ [][NextScan]_vars

\* ------------------------------------ compute_context on longer files
\* The same run over files of few kinds of lines, long enough for a region
\* to have lines before and after it and more lines before it than the
\* search for the preceding location looks at.
BookCtx ==
    << [name |-> "A",
        content |-> << DocRef("x", <<>>, 1, "\n"),
                       DocRef("y", <<Opt("before", 2), Opt("after", 1)>>, 2, "\n") >>] >>

CtxLines ==
    {StartMarker("A", "x"), StartMarker("", "y"), EndMarker("", "y"),
     PlainLine, MethodDeclLine}

InitCtx == Fresh(BookCtx)

NextCtx ==
    \/ Collect
    \/ OpenFile
    \/ \E line \in CtxLines : ParseLineUpTo(line, MaxCtxLines)
    \/ EndFile

SpecCtx == InitCtx /\ [][NextCtx]_vars

\* ------------------------------------------------- to_html on its own
\* The Locations a snippet can hold: a chain under a file root, whose nodes
\* are of any kind the scanner makes, under one of two names each; or such
\* a chain under a wrapper top or new, which a snippet gets only when no
\* line precedes it, so that its preceding location is None.
HtmlNodes(k) ==
    { Node(kind, << 1, k + j >>, FALSE) :
        kind \in {"class", "enum", "method", "constructor", "variable"},
        j \in {0, MaxHtmlChain} }

RECURSIVE HtmlChains(_)
HtmlChains(n) ==
    IF n = 1 THEN { RootLocation(1) }
    ELSE HtmlChains(n - 1) \cup
         { Append(c, x) : c \in { c \in HtmlChains(n - 1) : Len(c) = n - 1 },
                          x \in HtmlNodes(n - 1) }

Wrapped(c) == { Append(c, Node(k, None, FALSE)) : k \in {"top", "new"} }

HtmlInputs ==
    [c : HtmlChains(MaxHtmlChain),
     p : HtmlChains(MaxHtmlChain) \cup {None},
     r : BOOLEAN]
    \cup
    [c : UNION { Wrapped(c) : c \in HtmlChains(MaxHtmlChain) },
     p : {None},
     r : BOOLEAN]

InitHtml ==
    /\ pc = "location"
    /\ cur \in HtmlInputs
    /\ res = None
    /\ book = <<>> /\ code_book = <<>> /\ file = 0 /\ nread = 0
    /\ src = <<>> /\ expect = "any" /\ states = <<>> /\ location = None
    /\ lines = <<>> /\ snippets = EmptyMap /\ out = <<>>

\* to_html as run calls it (lines 676-679).
ToHtml ==
    /\ pc = "location"
    /\ res' = to_html(cur.c, cur.p, cur.r)
    /\ pc' = "html"
    /\ UNCHANGED << cur, Others >>

NextHtml == ToHtml

SpecHtml == InitHtml /\ [][NextHtml]_vars

\* ---------------------------------- update_location_before on its own
\* What the patterns can see of one line: CONSTRUCTOR_PATTERN wants the
\* line to start with two spaces and VARIABLE_PATTERN with a word
\* character, so no line matches both; the other outcomes are independent.
BeforeFeats ==
    { Feat(fn, cq, end, ctor, ty, var, -1, FALSE) :
        fn \in {"no", "kw", "yes"}, cq \in BOOLEAN,
        end \in {"semi", "comma", "other"}, ctor \in BOOLEAN,
        ty \in {"", "class", "enum", "interface"}, var \in BOOLEAN }
    \ { f \in [fn : {"no", "kw", "yes"}, cq : BOOLEAN,
                end : {"semi", "comma", "other"}, ctor : {TRUE},
                ty : {"", "class", "enum", "interface"}, var : {TRUE},
                brace : {-1}, pe : {FALSE}] : TRUE }

\* The cursors a line can find: no variable in the chain.
CursorChains ==
    { c \in Chains(MaxChain) : \A k \in 1 .. Len(c) : c[k].kind # "variable" }

\* The name given to the Location the line declares.
BeforeId == << 1, MaxChain + 1 >>

InitBefore ==
    /\ pc = "line"
    /\ cur \in [loc : CursorChains, f : BeforeFeats, next : BOOLEAN]
    /\ res = None
    /\ book = <<>> /\ code_book = <<>> /\ file = 0 /\ nread = 0
    /\ src = <<>> /\ expect = "any" /\ states = <<>> /\ location = None
    /\ lines = <<>> /\ snippets = EmptyMap /\ out = <<>>

\* update_location_before as parse_source_file calls it (line 345).
Before ==
    /\ pc = "line"
    /\ res' = update_location_before(cur.loc, Content(cur.f), cur.next, BeforeId)
    /\ pc' = "before"
    /\ UNCHANGED << cur, Others >>

NextBefore == Before

SpecBefore == InitBefore /\ [][NextBefore]_vars

\* --------------------------------------- the order of the source files
\* parse_source_file as a function of the file: its name f and its lines
\* s.  ParseFrom is the loop (lines 342-355) from the line k on, with the
\* interval stack stk, the cursor loc and the SourceLines lns made so far.
RECURSIVE ParseFrom(_, _, _, _, _, _, _)
ParseFrom(cb, f, s, k, stk, loc, lns) ==
    IF k > Len(s) THEN [panic |-> FALSE, lines |-> lns]
    ELSE LET line == s[k]
             id == << f, k >>
             nextSemi == k < Len(s) /\ EndsSemi(s[k + 1])
             loc1 == update_location_before(loc, line, nextSemi, id)
             st == update_state(cb, stk, line)
             after == update_location_after(loc1, line)
         IN IF st.panic \/ (~st.marker /\ st.states = <<>>) \/ after.panic
            THEN [panic |-> TRUE, lines |-> <<>>]
            ELSE ParseFrom(cb, f, s, k + 1, st.states, after.loc,
                     IF st.marker THEN lns
                     ELSE Append(lns, SourceLine(id, loc1, last(st.states).start,
                                                 last(st.states).end)))

\* A new parser for every file: empty stack, cursor on the file's root.
parse_source_file(cb, f, s) == ParseFrom(cb, f, s, 1, <<>>, RootLocation(f), <<>>)

\* The loop of run over the walked files (lines 602-636): files[k] is the
\* file named k, order the sequence of names as the walk yields them.
RECURSIVE WalkFiles(_, _, _, _)
WalkFiles(cb, files, order, snips) ==
    IF order = <<>> THEN [panic |-> FALSE, snippets |-> snips]
    ELSE LET sf == parse_source_file(cb, Head(order), files[Head(order)])
         IN IF sf.panic THEN [panic |-> TRUE, snippets |-> EmptyMap]
            ELSE WalkFiles(cb, files, Tail(order),
                           Extend(snips, FileSnippets(sf.lines)))

OrderLines ==
    {StartMarker("A", "x"), StartMarker("B", "z"), StartMarker("", "y"),
     EndMarker("", "y"), PlainLine}

\* Two files, walked in one order or the other.
InitOrder ==
    /\ pc = "collect"
    /\ book = BookAB
    /\ cur \in [files : [1 .. 2 -> SeqsUpTo(OrderLines, MaxOrderLines)],
                 order : { << 1, 2 >>, << 2, 1 >> }]
    /\ res = ""
    /\ code_book = <<>> /\ file = 0 /\ nread = 0
    /\ src = <<>> /\ expect = "any" /\ states = <<>> /\ location = None
    /\ lines = <<>> /\ snippets = EmptyMap /\ out = <<>>

\* One turn of the loop over the walk: the next file of the order is
\* parsed and its snippets are merged.
WalkFile ==
    /\ pc = "walk"
    /\ file < Len(cur.order)
    /\ LET f == cur.order[file + 1]
           sf == parse_source_file(code_book, f, cur.files[f])
       IN IF sf.panic
          THEN /\ pc' = "failed"
               /\ res' = "parse_source_file"
               /\ snippets' = EmptyMap
               /\ lines' = <<>>
               /\ src' = <<>>
               /\ file' = file + 1
          ELSE /\ snippets' = Extend(snippets, FileSnippets(sf.lines))
               /\ lines' = sf.lines
               /\ src' = cur.files[f]
               /\ file' = file + 1
               /\ UNCHANGED << pc, res >>
    /\ UNCHANGED << book, code_book, nread, cur, expect, states, location, out >>

NextOrder == Collect \/ WalkFile

SpecOrder == InitOrder /\ [][NextOrder]_vars

\* =============================================================== claims
\* Helpers of the statements below.

\* A file has been walked: lines and src are those of the last one.
Walked == pc \in {"walk", "done"} /\ file >= 1

\* The step reads a source line (cur' is that line).
ReadsLine == pc = "parse" /\ pc' \in {"parse", "failed"}

AllTags ==
    UNION { { code_book[i].code_tags[j] : j \in 1 .. Len(code_book[i].code_tags) } :
            i \in 1 .. Len(code_book) }

Elems(q) == { q[i] : i \in 1 .. Len(q) }

RECURSIVE StackAfter(_, _, _)
\* The interval stack after the first k lines of lns.
StackAfter(cb, lns, k) ==
    IF k = 0 THEN <<>>
    ELSE update_state(cb, StackAfter(cb, lns, k - 1), lns[k]).states

\* Physical lines p and q of the walked file are a start marker read with an
\* empty stack and its end marker, with content lines only (and at least
\* one) between them.
SimpleInterval(p, q) ==
    /\ p + 1 < q
    /\ src[p].t = "start"
    /\ src[q].t = "end"
    /\ StackAfter(code_book, src, p - 1) = <<>>
    /\ \A k \in p + 1 .. q - 1 : src[k].t = "content"

\* The contents of the lines p+1 .. q-1.
Enclosed(p, q) == [k \in 1 .. q - p - 1 |-> << file, p + k >>]

\* The contents of the lines of the file stamped with a start region name.
Stamped(name) ==
    LET sel == SelectSeq(lines, LAMBDA l : l.start.name = name)
    IN [i \in 1 .. Len(sel) |-> sel[i].content]

IsRunOf(run, q) ==
    \E off \in 0 .. Len(q) - Len(run) : SubSeq(q, off + 1, off + Len(run)) = run

RECURSIVE ChapterRefs(_, _)
\* The references of the items named name, in documentation order: the
\* j-th of them made the j-th tag of the chapter.
ChapterRefs(bk, name) ==
    IF bk = <<>> THEN <<>>
    ELSE (IF Head(bk).name = name THEN Refs(Head(bk).content) ELSE <<>>)
         \o ChapterRefs(Tail(bk), name)

HasOpt(r, k) == \E i \in 1 .. Len(r.opts) : r.opts[i].k = k

\* The lines before first_line that are present at the snippet's region.
PresentBefore(s) ==
    { i \in 1 .. s.first_line : is_present_at(lines[i], s.code_tag) }

\* -- C1 ------------------------------------------------------------------
\* C1: rendering never panics, and when run is done every chapter has been
\* rendered line for line, each reference whose name has no snippet having
\* become the "not found" notice of that name.
C1_NotFoundNotice ==
    /\ ~(pc = "failed" /\ res = "render")
    /\ pc = "done" =>
         /\ Len(out) = Len(book)
         /\ \A i \in 1 .. Len(book) :
              /\ Len(out[i]) = Len(book[i].content)
              /\ \A j \in 1 .. Len(book[i].content) :
                   LET l == book[i].content[j]
                   IN (l.ref /\ l.name \notin DOMAIN snippets)
                         => out[i][j] = NotFoundOut(l.name)

\* A run that walked a file, built a snippet, and rendered a reference
\* without snippet that is followed by another line and another chapter.
C1_Witness ==
    /\ pc = "done"
    /\ DOMAIN snippets # {}
    /\ \E i \in 1 .. Len(book) - 1 : \E j \in 1 .. Len(book[i].content) - 1 :
         /\ book[i].content[j].ref
         /\ book[i].content[j].name \notin DOMAIN snippets
         /\ out[i][j].k = "not found"
         /\ Len(out[i + 1]) > 0

\* -- C2 ------------------------------------------------------------------
\* C2 as stated: the snippet of a region opened with an empty stack around
\* content lines L1..L2 has exactly L1..L2 as its added lines.
C2_AddedExactlyEnclosed ==
    Walked =>
      \A p, q \in 1 .. Len(src) :
         SimpleInterval(p, q) =>
            /\ src[p].name \in DOMAIN snippets
            /\ snippets[src[p].name].added = Enclosed(p, q)

\* C2 amended: the snippet stored under the region's name has as added
\* lines the content lines of the file stamped with a start region of that
\* name, in file order; L1..L2 are a contiguous run of them, and are all
\* of them when no other line of the file is stamped with that name.
C2_AddedAreStamped ==
    Walked =>
      \A p, q \in 1 .. Len(src) :
         SimpleInterval(p, q) =>
            /\ src[p].name \in DOMAIN snippets
            /\ LET added == snippets[src[p].name].added
               IN /\ added = Stamped(src[p].name)
                  /\ IsRunOf(Enclosed(p, q), added)
                  /\ Len(Stamped(src[p].name)) = Len(Enclosed(p, q))
                        => added = Enclosed(p, q)

\* A file with a simple interval around two content lines whose snippet
\* holds exactly those two.
C2_Witness ==
    /\ Walked
    /\ \E p, q \in 1 .. Len(src) :
         /\ SimpleInterval(p, q)
         /\ q = p + 3
         /\ snippets[src[p].name].added = << <<file, p + 1>>, <<file, p + 2>> >>

\* -- C3 ------------------------------------------------------------------
\* C3: reading an end marker whose name differs from the start region name
\* of the innermost open interval fails the run; the stack is not popped.
C3_MismatchFails ==
    [][ ( /\ ReadsLine
          /\ cur'.t = "end"
          /\ states # <<>>
          /\ last(states).start.name # cur'.name )
        => (pc' = "failed" /\ states' = states) ]_vars

\* A run that failed on such an end marker although an outer interval
\* carries the marker's name.
C3_Witness ==
    /\ pc = "failed"
    /\ res = "update_state"
    /\ cur.t = "end"
    /\ Len(states) >= 2
    /\ last(states).start.name # cur.name
    /\ states[Len(states) - 1].start.name = cur.name

\* -- C4 ------------------------------------------------------------------
\* C4: a snippet never holds more context lines than the budgets of its
\* region; a region made from a reference without "N before" ("N after")
\* has budget 0 and its snippet no context line on that side.
C4_ContextWithinBudget ==
    pc \in {"walk", "done"} =>
      /\ \A n \in DOMAIN snippets :
           /\ Len(snippets[n].context_before) <= snippets[n].code_tag.before_count
           /\ Len(snippets[n].context_after) <= snippets[n].code_tag.after_count
      /\ \A i \in 1 .. Len(code_book) - 1 :
           \A j \in 1 .. Len(code_book[i].code_tags) :
              LET t == code_book[i].code_tags[j]
                  r == ChapterRefs(book, code_book[i].name)[j]
              IN /\ ~HasOpt(r, "before") =>
                      /\ t.before_count = 0
                      /\ \A n \in DOMAIN snippets :
                            snippets[n].code_tag = t => snippets[n].context_before = <<>>
                 /\ ~HasOpt(r, "after") =>
                      /\ t.after_count = 0
                      /\ \A n \in DOMAIN snippets :
                            snippets[n].code_tag = t => snippets[n].context_after = <<>>

\* A snippet of the walked file with more present lines before it than its
\* budget allows, for a budget of 0 and for a budget of 1.
C4_Witness ==
    /\ Walked
    /\ \E n \in DOMAIN snippets :
         LET s == snippets[n]
         IN /\ s.added # <<>>
            /\ s.added = Stamped(n)
            /\ Cardinality(PresentBefore(s)) > s.code_tag.before_count
            /\ Len(s.context_before) = s.code_tag.before_count
            /\ s.code_tag.before_count = 1

\* -- C5 ------------------------------------------------------------------
\* C5: for a chain c with depth(c) <= d + 1, pop_to_depth(d) returns c, once
\* and again.
C5_PopShallowIsIdentity ==
    (pc \in {"popped", "popped twice"} /\ depth(cur.c) <= cur.d + 1)
        => res = cur.c

\* A chain of exactly d + 1 nodes, d >= 1, popped twice.
C5_Witness ==
    /\ pc = "popped twice"
    /\ cur.d >= 1
    /\ depth(cur.c) = cur.d + 1
    /\ res = cur.c

\* -- C6 ------------------------------------------------------------------
\* C6 as stated: a line whose start region is ordered before the queried
\* region R is not present at R.
C6_EarlierStartAbsent ==
    \A i \in 1 .. Len(lines) : \A R \in AllTags :
        is_before(lines[i].start, R) => ~is_present_at(lines[i], R)

\* C6 amended: a line is not present at R when R is ordered before the
\* line's start region; a line whose start region is ordered before R, and
\* which carries no end region, is present at R.
C6_LaterStartAbsent ==
    \A i \in 1 .. Len(lines) : \A R \in AllTags :
        /\ is_before(R, lines[i].start) => ~is_present_at(lines[i], R)
        /\ (is_before(lines[i].start, R) /\ lines[i].end = None)
              => is_present_at(lines[i], R)

\* Regions x (ordinal 0) and y (ordinal 1) of one chapter, y opened inside
\* the interval of x: a line stamped x is in the context of y, and a line
\* stamped y is not present at x.
C6_Witness ==
    /\ Walked
    /\ {"x", "y"} \subseteq DOMAIN snippets
    /\ snippets["x"].code_tag.chapter = snippets["y"].code_tag.chapter
    /\ snippets["x"].code_tag.index = 0
    /\ snippets["y"].code_tag.index = 1
    /\ \E i, k \in 1 .. Len(lines) :
         /\ lines[i].start = snippets["x"].code_tag
         /\ lines[i].content \in Elems(snippets["y"].context_before)
         /\ lines[k].start = snippets["y"].code_tag
         /\ ~is_present_at(lines[k], snippets["x"].code_tag)

\* -- C7 ------------------------------------------------------------------
\* C7 as stated: a line with an end region E ordered at or after the
\* queried region R is not present at R.
C7_EndAtOrAfterAbsent ==
    \A i \in 1 .. Len(lines) : \A R \in AllTags :
        ( /\ is_some(lines[i].end)
          /\ (unwrap(lines[i].end) = R \/ is_before(R, unwrap(lines[i].end))) )
        => ~is_present_at(lines[i], R)

\* C7 amended: a line with an end region E is not present at R when R is
\* not ordered before E (E is R, or E is ordered before R); when R is
\* ordered before E the line is present at R unless R is ordered before
\* the line's start region.
C7_EndAtOrBeforeAbsent ==
    \A i \in 1 .. Len(lines) : \A R \in AllTags :
        is_some(lines[i].end) =>
           /\ ~is_before(R, unwrap(lines[i].end)) => ~is_present_at(lines[i], R)
           /\ (is_before(R, unwrap(lines[i].end)) /\ ~is_before(R, lines[i].start))
                 => is_present_at(lines[i], R)

\* A line of a block whose end region is ordered after its start region,
\* looked up at its end region, at a later region and at its start region.
C7_Witness ==
    \E i \in 1 .. Len(lines) : \E R \in AllTags :
        /\ is_some(lines[i].end)
        /\ is_before(lines[i].start, unwrap(lines[i].end))
        /\ is_before(unwrap(lines[i].end), R)
        /\ ~is_present_at(lines[i], R)
        /\ ~is_present_at(lines[i], unwrap(lines[i].end))
        /\ is_present_at(lines[i], lines[i].start)

\* -- C8 ------------------------------------------------------------------
\* C8: find_code_tag returns the synthetic region for omit and for not-yet
\* whatever chapter name is passed.
C8_StaticAlwaysFound ==
    (pc = "found" /\ cur[2] \in {"omit", "not-yet"})
        => /\ is_some(res)
           /\ unwrap(res).name = cur[2]
           /\ unwrap(res).chapter = Len(code_book) - 1
           /\ code_book[Len(code_book)].name = StaticName

\* -- C9 ------------------------------------------------------------------
\* C9: an end marker or a block close read while the interval stack is
\* empty fails the run.
C9_OverPopFails ==
    [][ ( /\ ReadsLine
          /\ cur'.t \in {"end", "close"}
          /\ states = <<>> )
        => pc' = "failed" ]_vars

\* -- C10 -----------------------------------------------------------------
\* C10: in every rendered chapter each line has made exactly one piece of
\* the output, in order: a reference a snippet block or a notice, any other
\* line its own text.
C10_LinesInPlace ==
    pc = "done" =>
      /\ Len(out) = Len(book)
      /\ \A i \in 1 .. Len(book) :
           /\ Len(out[i]) = Len(book[i].content)
           /\ \A j \in 1 .. Len(book[i].content) :
                LET l == book[i].content[j]
                IN IF l.ref
                   THEN out[i][j].k \in {"snippet", "not found"}
                   ELSE out[i][j].k = "text" /\ out[i][j].text = l.text

\* A chapter with a text line before a reference rendered as a snippet
\* block and a reference after it.
C10_Witness ==
    /\ pc = "done"
    /\ \E i \in 1 .. Len(book) : \E j \in 2 .. Len(book[i].content) - 1 :
         /\ ~book[i].content[j - 1].ref
         /\ out[i][j - 1].k = "text"
         /\ out[i][j].k = "snippet"
         /\ out[i][j].added # <<>>
         /\ book[i].content[j + 1].ref

\* -- C11 -----------------------------------------------------------------
\* The contents of the lines of the file stamped with an end region name.
StampedEnd(name) ==
    LET sel == SelectSeq(lines,
                   LAMBDA l : is_some(l.end) /\ unwrap(l.end).name = name)
    IN [i \in 1 .. Len(sel) |-> sel[i].content]

\* The names some line of the file is stamped with, as start or as end.
StampedNames ==
    { lines[i].start.name : i \in 1 .. Len(lines) } \cup
    { unwrap(lines[i].end).name : i \in { k \in 1 .. Len(lines) : is_some(lines[k].end) } }

\* The step ends the current file, whose lines are in lines.
EndsFile == pc = "parse" /\ pc' = "walk"

\* C11: when a file ends, the global snippet of every name stamped on a
\* line of that file (as start or as end region) becomes the snippet built
\* from that file alone: its added, removed and context lines are lines of
\* that file and nothing of the entry it replaces is kept; the snippet of
\* every other name stays the one of the last file that stamped it.
C11_LastFileWins ==
    [][ EndsFile =>
          /\ DOMAIN snippets' = DOMAIN snippets \cup StampedNames
          /\ \A n \in DOMAIN snippets' :
                IF n \in StampedNames
                THEN /\ snippets'[n] = FileSnippets(lines)[n]
                     /\ snippets'[n].added = Stamped(n)
                     /\ snippets'[n].removed = StampedEnd(n)
                     /\ \A c \in Elems(snippets'[n].context_before)
                                 \cup Elems(snippets'[n].context_after) :
                           c[1] = file
                ELSE snippets'[n] = snippets[n] ]_vars

\* Two files walked.  The first content line of file 1 was its line 2 and
\* was stamped with start region y by a marker read with an empty stack,
\* which only the block  /* A y < A x  does: that line was a removed line
\* of x in file 1.  File 2 stamped x again: the snippet of x holds lines of
\* file 2 only and no removed line, the snippet of y is still file 1's.
C11_Witness ==
    /\ pc = "walk"
    /\ file = 2
    /\ {"x", "y"} \subseteq DOMAIN snippets
    /\ snippets["y"].added # <<>>
    /\ snippets["y"].added[1] = << 1, 2 >>
    /\ snippets["y"].first_line = 0
    /\ snippets["x"].added # <<>>
    /\ \A c \in Elems(snippets["x"].added) : c[1] = 2
    /\ snippets["x"].removed = <<>>
    /\ "x" \in StampedNames

\* -- C12 -----------------------------------------------------------------
\* The catalog is built.
Collected == pc \in {"walk", "found"}

\* C12: in the catalog no chapter holds two regions with the same name.
C12_UniqueNames ==
    Collected =>
      \A i \in 1 .. Len(code_book) :
         \A j, k \in 1 .. Len(code_book[i].code_tags) :
            code_book[i].code_tags[j].name = code_book[i].code_tags[k].name
               => j = k

\* -- C13 -----------------------------------------------------------------
\* The names of the first j regions of a chapter.
NamesUpTo(ch, j) == { ch.code_tags[k].name : k \in 1 .. j }

\* C13: in every chapter made from the documentation, the region made for
\* the N-th distinct name (from 0, in reference order) has ordinal N, and
\* no two regions of the chapter have the same ordinal.
C13_OrdinalIsDistinctRank ==
    Collected =>
      \A i \in 1 .. Len(code_book) - 1 :
         LET ch == code_book[i]
         IN /\ \A j \in 1 .. Len(ch.code_tags) :
                  ch.code_tags[j].name \notin NamesUpTo(ch, j - 1)
                     => ch.code_tags[j].index = Cardinality(NamesUpTo(ch, j - 1))
            /\ \A j, k \in 1 .. Len(ch.code_tags) :
                  ch.code_tags[j].index = ch.code_tags[k].index => j = k

\* -- C14 -----------------------------------------------------------------
\* The SourceLine made for the physical line k of the file, if any.
LineOf(lns, f, k) == { lns[i] : i \in { n \in 1 .. Len(lns) : lns[n].content = << f, k >> } }

RECURSIVE Height(_, _)
\* Height of the interval stack after the first k lines of s, all read
\* without failure: a start or block marker adds a frame, an end marker
\* or block close takes one off if there is one.
Height(s, k) ==
    IF k = 0 THEN 0
    ELSE LET h == Height(s, k - 1)
         IN IF s[k].t \in {"start", "block"} THEN h + 1
            ELSE IF s[k].t \in {"end", "close"} THEN (IF h = 0 THEN 0 ELSE h - 1)
            ELSE h

\* The lines p .. q of s open an interval and close it again: the stack is
\* higher in between and back to its height after q.
Nested(s, p, q) ==
    /\ p < q
    /\ Height(s, p) = Height(s, p - 1) + 1
    /\ Height(s, q) = Height(s, p - 1)
    /\ \A k \in p .. q - 1 : Height(s, k) > Height(s, p - 1)

\* Content lines on both sides of a nested interval carry the same stamp.
StampsAreLIFO ==
    \A p, q \in 2 .. Len(src) - 1 :
       ( /\ Nested(src, p, q)
         /\ src[p - 1].t = "content"
         /\ src[q + 1].t = "content" )
       => \A a \in LineOf(lines, file, p - 1) : \A b \in LineOf(lines, file, q + 1) :
             a.start = b.start /\ a.end = b.end

\* C14: a content line read makes one SourceLine, stamped with the start
\* and end region of the frame on top of the interval stack; a marker line
\* makes none; and content lines after a popped interval are stamped like
\* the ones before it.
C14_StampedWithTopFrame ==
    [][ (ReadsLine /\ pc' = "parse") =>
          /\ IF cur'.t = "content"
             THEN /\ states # <<>>
                  /\ Len(lines') = Len(lines) + 1
                  /\ SubSeq(lines', 1, Len(lines)) = lines
                  /\ last(lines').content = << file, Len(src') >>
                  /\ last(lines').start = last(states).start
                  /\ last(lines').end = last(states).end
                  /\ states' = states
             ELSE lines' = lines
          /\ StampsAreLIFO' ]_vars

\* A content line stamped x, a nested interval y opened and closed, and a
\* content line stamped x again.
C14_Witness ==
    /\ pc = "parse"
    /\ Len(src) = 5
    /\ \E p, q \in 2 .. 4 :
          /\ Nested(src, p, q)
          /\ src[p - 1].t = "content" /\ src[q + 1].t = "content"
          /\ Len(lines) = 2
          /\ lines[1].start = lines[2].start
          /\ lines[1].start.name = "x"
          /\ src[p].name = "y"
          /\ Len(states) = Height(src, 5)

\* -- C15 -----------------------------------------------------------------
\* The region a name resolves to in the catalog chapter ch: the synthetic
\* region of that name if there is one, else the first region of ch with
\* that name; None when there is neither.
ResolvedIn(cb, ch, name) ==
    LET static == { t \in Elems(cb[Len(cb)].code_tags) : t.name = name }
        own == { j \in 1 .. Len(ch.code_tags) : ch.code_tags[j].name = name }
    IN IF static # {} THEN Some(CHOOSE t \in static : TRUE)
       ELSE IF own # {}
            THEN Some(ch.code_tags[CHOOSE j \in own : \A k \in own : j <= k])
       ELSE None

\* C15: a start marker without chapter name, read while an interval is
\* open whose start region belongs to the catalog chapter C, pushes the
\* frame (region of that name resolved in C, no end region) on the stack;
\* when the name resolves to nothing in C the run fails.
C15_ChapterlessStart ==
    [][ ( /\ ReadsLine
          /\ cur'.t = "start"
          /\ cur'.ch = ""
          /\ states # <<>> )
        => LET C == code_book[last(states).start.chapter + 1]
               r == ResolvedIn(code_book, C, cur'.name)
           IN IF is_some(r)
              THEN /\ pc' = "parse"
                   /\ states' = Append(states, ParseState(unwrap(r), None))
              ELSE pc' = "failed" ]_vars

\* The marker  //> omit  read inside an interval of the synthetic region
\* omit, itself opened inside a region of a documentation chapter.
C15_Witness ==
    /\ pc = "parse"
    /\ cur = StartMarker("", "omit")
    /\ Len(states) >= 3
    /\ code_book[states[Len(states) - 2].start.chapter + 1].name # StaticName
    /\ code_book[states[Len(states) - 1].start.chapter + 1].name = StaticName
    /\ last(states) = ParseState(CodeTag(Len(code_book) - 1, "omit", OmitIndex,
                                         FALSE, 0, 0), None)

\* -- C16 -----------------------------------------------------------------
\* The contents of the lines of the file stamped with the start region t.
StampedRegion(t) ==
    LET sel == SelectSeq(lines, LAMBDA l : l.start = t)
    IN [i \in 1 .. Len(sel) |-> sel[i].content]

\* C16: the snippet the walked file made under a name has as added lines
\* the content lines stamped with the snippet's own region, chapter and
\* name alike, and every line stamped with a start region of that name is
\* stamped with the snippet's region.
C16_AddedByRegionIdentity ==
    Walked =>
      \A n \in DOMAIN snippets :
         (\E i \in 1 .. Len(lines) : lines[i].start.name = n) =>
            /\ snippets[n].added = StampedRegion(snippets[n].code_tag)
            /\ \A i \in 1 .. Len(lines) :
                  lines[i].content \in Elems(snippets[n].added)
                     => lines[i].start = snippets[n].code_tag

\* -- C17 -----------------------------------------------------------------
Min(a, b) == IF a <= b THEN a ELSE b

\* The lines of the walked file before the snippet's first_line, and after
\* its last_line, that are present at the snippet's region, in file order.
BeforePresent(s) ==
    SelectSeq(SubSeq(lines, 1, s.first_line),
              LAMBDA l : is_present_at(l, s.code_tag))

AfterPresent(s) ==
    SelectSeq(SubSeq(lines, s.last_line + 2, Len(lines)),
              LAMBDA l : is_present_at(l, s.code_tag))

Contents(q) == [i \in 1 .. Len(q) |-> q[i].content]

\* The snippets built from the walked file.
FromWalked == { n \in DOMAIN snippets : n \in StampedNames }

\* C17: context_before is the last min(before_count, k) of the k present
\* lines before first_line, context_after the first min(after_count, m) of
\* the m present lines after last_line, both in file order.
C17_ContextIsNearestPresent ==
    Walked =>
      \A n \in FromWalked :
         LET s == snippets[n]
             bp == BeforePresent(s)
             ap == AfterPresent(s)
             nb == Min(s.code_tag.before_count, Len(bp))
             na == Min(s.code_tag.after_count, Len(ap))
         IN /\ s.context_before = Contents(SubSeq(bp, Len(bp) - nb + 1, Len(bp)))
            /\ s.context_after = Contents(SubSeq(ap, 1, na))

\* A region with the options 2 before, 1 after, three present lines before
\* it and two after it: the two nearest and the first one are its context.
C17_Witness ==
    /\ Walked
    /\ \E n \in FromWalked :
         LET s == snippets[n]
         IN /\ s.code_tag.before_count = 2
            /\ s.code_tag.after_count = 1
            /\ Len(BeforePresent(s)) = 3
            /\ Len(AfterPresent(s)) = 2
            /\ s.context_before = Contents(SubSeq(BeforePresent(s), 2, 3))
            /\ s.context_after = << AfterPresent(s)[1].content >>

\* -- C18 -----------------------------------------------------------------
\* The Location add_line gave the snippet: that of its first added line.
OriginalLocation(s) ==
    IF s.added # <<>> THEN lines[s.first_line + 1].location ELSE None

\* C18: a snippet with no present line before first_line has for Location
\* a node of kind top (some line after last_line is present) or new (none
\* is) whose parent is the Location of its first added line; a snippet
\* with a present line before first_line keeps that Location.
C18_TopOrNewWrapper ==
    Walked =>
      \A n \in FromWalked :
         LET s == snippets[n]
         IN s.location =
               IF BeforePresent(s) = <<>>
               THEN Append(OriginalLocation(s),
                           Node(IF AfterPresent(s) # <<>> THEN "top" ELSE "new",
                                None, FALSE))
               ELSE OriginalLocation(s)

\* One file made a snippet wrapped as top, its first line a method
\* declaration, and a snippet wrapped as new.
C18_Witness ==
    /\ Walked
    /\ {"x", "y"} \subseteq FromWalked
    /\ snippets["y"].location[Len(snippets["y"].location)].kind = "top"
    /\ Len(snippets["y"].location) = 3
    /\ snippets["x"].location[Len(snippets["x"].location)].kind = "new"

\* -- C19 -----------------------------------------------------------------
\* The (at most) MaxChecked + 1 nearest present lines before first_line.
NearestPresent(s) ==
    LET bp == BeforePresent(s)
        k == Min(MaxChecked + 1, Len(bp))
    IN SubSeq(bp, Len(bp) - k + 1, Len(bp))

\* C19: preceding_location is the Location of the deepest of the (at most)
\* five nearest present lines before first_line, the nearest one among
\* the deepest, whatever before_count is; it is None when no line before
\* first_line is present.
C19_PrecedingIsDeepestOfFive ==
    Walked =>
      \A n \in FromWalked :
         LET s == snippets[n]
             np == NearestPresent(s)
         IN IF np = <<>> THEN s.preceding_location = None
            ELSE \E i \in 1 .. Len(np) :
                    /\ s.preceding_location = np[i].location
                    /\ \A j \in 1 .. Len(np) :
                          /\ depth(np[j].location) <= depth(np[i].location)
                          /\ j > i => depth(np[j].location) < depth(np[i].location)

\* A region with a budget of two lines before it and six present lines
\* before it, the farthest of them the only one inside a method: the
\* preceding location is that of the five nearest.
C19_Witness ==
    /\ Walked
    /\ \E n \in FromWalked :
         LET s == snippets[n]
             bp == BeforePresent(s)
         IN /\ Len(bp) = 6
            /\ s.code_tag.before_count = 2
            /\ depth(bp[1].location) = 2
            /\ \A j \in 2 .. 6 : depth(bp[j].location) = 1
            /\ s.preceding_location = bp[6].location
            /\ depth(s.preceding_location) = 1

\* -- C20 -----------------------------------------------------------------
\* The phrase  in <kind> <name>  of a type node.
TypePhrase(n) ==
    IF n.kind = "class" THEN Phrase("in class", "", n.name)
    ELSE Phrase("in kind", n.kind, n.name)

\* C20: for every snippet, every node of its Location whose kind is class,
\* enum or interface is rendered as  in <kind> <name>.
C20_TypeNodesRendered ==
    \A n \in DOMAIN snippets :
       LET s == snippets[n]
       IN s.location # None =>
            \A k \in 1 .. Len(s.location) :
               s.location[k].kind \in {"class", "enum", "interface"}
                  => NodePhrase(SubSeq(s.location, 1, k), s.preceding_location,
                                s.removed # <<>>) = TypePhrase(s.location[k])

\* -- C21 -----------------------------------------------------------------
\* The rules of recurse, numbered in their order, for the node c under the
\* preceding location p and the flag r (the region has removed lines).
RuleHolds(i, c, p, r) ==
    LET n == c[Len(c)]
        fn == n.kind \in {"constructor", "function", "method"}
    IN CASE i = 1 -> n.kind = "file"
         [] i = 2 -> n.kind = "new"
         [] i = 3 -> n.kind = "top"
         [] i = 4 -> n.kind = "class"
         [] i = 5 -> fn /\ p = c
         [] i = 6 -> fn /\ r
         [] i = 7 -> /\ SubSeq(c, 1, Len(c) - 1) = p
                     /\ (p = None \/ p[Len(p)].kind # "file")
         [] i = 8 -> p = c /\ n.kind # "file"
         [] i = 9 -> p # None /\ p[Len(p)].kind \in {"constructor", "function", "method"}
         [] i = 10 -> p # None /\ p[Len(p)].kind # "file"

RulePhrase(i, c, p) ==
    LET n == c[Len(c)]
    IN CASE i = 1 -> Phrase("file", "", n.name)
         [] i = 2 -> Phrase("create new file", "", None)
         [] i = 3 -> Phrase("add to top of file", "", None)
         [] i = 4 -> Phrase("in class", "", n.name)
         [] i = 5 -> Phrase("in ()", "", n.name)
         [] i = 6 -> Phrase("kind ()", n.kind, n.name)
         [] i = 7 -> IF p = None THEN PanicPhrase
                     ELSE Phrase("in kind", p[Len(p)].kind, p[Len(p)].name)
         [] i = 8 -> Phrase("in kind $name", n.kind, None)
         [] i = 9 -> Phrase("add after ()", "", p[Len(p)].name)
         [] i = 10 -> Phrase("add after kind", p[Len(p)].kind, p[Len(p)].name)

\* The phrases of the first k nodes of c, root first: for each node the
\* phrase of its first rule that holds, nothing when no rule holds.
RECURSIVE PhrasesUpTo(_, _, _, _)
PhrasesUpTo(c, p, r, k) ==
    IF k = 0 THEN <<>>
    ELSE LET node == SubSeq(c, 1, k)
             held == { i \in 1 .. 10 : RuleHolds(i, node, p, r) }
         IN PhrasesUpTo(c, p, r, k - 1) \o
            (IF held = {} THEN <<>>
             ELSE << RulePhrase(CHOOSE i \in held : \A j \in held : i <= j,
                                node, p) >>)

\* C21: to_html returns, root first, one phrase for each node of the chain
\* that some rule matches, that of the first rule matching it, and nothing
\* for the others; a function node equal to the preceding location gives
\* in <name>() whether or not the region has removed lines.
C21_FirstRuleWins ==
    pc = "html" =>
       /\ res = PhrasesUpTo(cur.c, cur.p, cur.r, Len(cur.c))
       /\ Len(res) <= Len(cur.c)
       /\ \A k \in 1 .. Len(cur.c) :
             ( /\ cur.c[k].kind \in {"constructor", "method"}
               /\ cur.p = SubSeq(cur.c, 1, k) )
             => \E i \in 1 .. Len(res) : res[i] = Phrase("in ()", "", cur.c[k].name)

\* A region with removed lines in a method that is its preceding location:
\* the file, then in <name>().
C21_Witness ==
    /\ pc = "html"
    /\ cur.r
    /\ Len(cur.c) = 2
    /\ cur.c[2].kind = "method"
    /\ cur.p = cur.c
    /\ res = << Phrase("file", "", cur.c[1].name), Phrase("in ()", "", cur.c[2].name) >>

\* -- C22 -----------------------------------------------------------------
\* A node that lives for one line: a variable or a function declaration.
OneLine(n) == n.kind = "variable" \/ n.decl

\* C22: between two lines no node of the cursor is a variable or a
\* function declaration; on a SourceLine such a node is the last one of
\* the chain and was made by that very line.
C22_OneLineScopes ==
    /\ (pc \in {"parse", "walk", "done"} /\ location # None)
          => \A k \in 1 .. Len(location) : ~OneLine(location[k])
    /\ \A i \in 1 .. Len(lines) :
          \A k \in 1 .. Len(lines[i].location) :
             OneLine(lines[i].location[k])
                => /\ k = Len(lines[i].location)
                   /\ lines[i].location[k].name = lines[i].content

\* A line stamped with a variable, then one stamped with a method
\* declaration, then a line stamped with the Location before them.
C22_Witness ==
    /\ pc = "parse"
    /\ \E i \in 1 .. Len(lines) - 2 :
          /\ lines[i].location[Len(lines[i].location)].kind = "variable"
          /\ lines[i + 1].location[Len(lines[i + 1].location)].decl
          /\ lines[i + 2].location = parent(lines[i].location)
          /\ location = lines[i + 2].location

\* -- C23 -----------------------------------------------------------------
BeforeDone == pc = "before"

\* C23 as stated: a line that holds // or a double quote leaves the cursor
\* as it is, whichever patterns match it.
C23_CommentLeavesCursor ==
    (BeforeDone /\ cur.f.cq) => res = cur.loc

\* The kind of the child update_location_before pushes, "" for none: the
\* function pattern counts unless the line holds // or a quote (the other
\* patterns are then tried); then the constructor pattern; then the type
\* pattern, which on a line with // or a quote pushes nothing and ends
\* the search; then the variable pattern.
ChildKind(f) ==
    IF f.fn = "yes" /\ ~f.cq THEN "method"
    ELSE IF f.ctor THEN "constructor"
    ELSE IF f.ty # "" THEN (IF f.cq THEN "" ELSE f.ty)
    ELSE IF f.var THEN "variable"
    ELSE ""

\* C23 amended: update_location_before pushes at most one child, whose
\* parent is the former cursor, chosen by the priority function >
\* constructor > type > variable; // or a quote suppresses a function
\* match and a type match only, so that a constructor or a variable is
\* pushed on such a line too.
C23_SuppressionPerPattern ==
    BeforeDone =>
       IF ChildKind(cur.f) = ""
       THEN res = cur.loc
       ELSE /\ Len(res) = Len(cur.loc) + 1
            /\ SubSeq(res, 1, Len(cur.loc)) = cur.loc
            /\ res[Len(res)].kind = ChildKind(cur.f)
            /\ res[Len(res)].name = BeforeId

\* A line with // that matches the function pattern and the constructor
\* pattern: a constructor is pushed.
C23_Witness ==
    /\ BeforeDone
    /\ cur.f.cq /\ cur.f.fn = "yes" /\ cur.f.ctor /\ cur.f.ty = "class"
    /\ res = Append(cur.loc, Node("constructor", BeforeId, FALSE))

\* -- C24 -----------------------------------------------------------------
\* A chain with one root, of kind file.
FileRooted(c) ==
    /\ c # None
    /\ c[1].kind = "file"
    /\ \A k \in 2 .. Len(c) : c[k].kind # "file"

\* C24: the Location of every SourceLine and the location and preceding
\* location of every snippet, when it has one, is a chain under one root
\* of kind file.
C24_ChainsAreFileRooted ==
    /\ \A i \in 1 .. Len(lines) : FileRooted(lines[i].location)
    /\ \A n \in DOMAIN snippets :
          /\ snippets[n].location # None => FileRooted(snippets[n].location)
          /\ snippets[n].preceding_location # None
                => FileRooted(snippets[n].preceding_location)

\* -- C25 -----------------------------------------------------------------
\* The line is stamped with a start region named omit or not-yet.
Omitted(l) == l.start.name \in {"omit", "not-yet"}

\* The regions of the documentation chapters.
RegularTags == { t \in AllTags : t.chapter < Len(code_book) - 1 }

\* C25: a line stamped with start region omit or not-yet carries the
\* region of the synthetic chapter, whose index is above every other; it
\* is present at no region of a documentation chapter, and for a snippet
\* of such a region it is neither a context line nor one of the present
\* lines before or after it that give its preceding location and wrapper.
C25_OmittedLinesAbsent ==
    \A i \in 1 .. Len(lines) :
       Omitted(lines[i]) =>
          /\ lines[i].start.chapter = Len(code_book) - 1
          /\ \A j \in 1 .. Len(code_book) - 1 : j - 1 < lines[i].start.chapter
          /\ \A R \in RegularTags : ~is_present_at(lines[i], R)
          /\ Walked =>
               \A n \in FromWalked :
                  snippets[n].code_tag \in RegularTags =>
                     /\ lines[i].content \notin Elems(snippets[n].context_before)
                     /\ lines[i].content \notin Elems(snippets[n].context_after)
                     /\ lines[i] \notin Elems(BeforePresent(snippets[n]))
                     /\ lines[i] \notin Elems(AfterPresent(snippets[n]))

\* A region with a budget of one line after it, followed by a line
\* stamped omit only: it has no context line and is wrapped as new.
C25_Witness ==
    /\ Walked
    /\ \E n \in FromWalked :
         LET s == snippets[n]
         IN /\ s.code_tag \in RegularTags
            /\ s.code_tag.after_count = 1
            /\ s.added # <<>>
            /\ s.last_line + 2 = Len(lines)
            /\ Omitted(lines[Len(lines)])
            /\ s.context_after = <<>>
            /\ s.location[Len(s.location)].kind = "new"

\* -- C26 -----------------------------------------------------------------
\* C26: a content line, or a start marker without chapter name, read
\* while the interval stack is empty fails the run and makes no
\* SourceLine; every SourceLine carries a start region of the catalog.
C26_NoLineOutsideInterval ==
    [][ /\ ( /\ ReadsLine
             /\ states = <<>>
             /\ \/ cur'.t = "content"
                \/ cur'.t = "start" /\ cur'.ch = "" )
           => (pc' = "failed" /\ lines' = <<>>)
        /\ ReadsLine => \A i \in 1 .. Len(lines') : lines'[i].start \in AllTags
      ]_vars

\* A run that failed on a content line read while no interval was open.
C26_Witness ==
    /\ pc = "failed"
    /\ res = "parse_source_file"
    /\ cur.t = "content"
    /\ states = <<>>

\* -- C27 -----------------------------------------------------------------
\* The names stamped on the lines lns, as start or as end region.
NamesOf(lns) ==
    { lns[i].start.name : i \in 1 .. Len(lns) } \cup
    { unwrap(lns[i].end).name : i \in { k \in 1 .. Len(lns) : is_some(lns[k].end) } }

Reverse(q) == [i \in 1 .. Len(q) |-> q[Len(q) + 1 - i]]

\* Both files have been walked without failure.
BothWalked == pc = "walk" /\ file = 2

\* The file named f parsed alone, by a parser that has seen no other file.
Alone(f) == parse_source_file(code_book, f, cur.files[f])

\* C27: the file walked last has given the snippets it gives when parsed
\* alone, whatever file was walked before it; and when no name is stamped
\* in both files the snippet map is the one the other order gives.
C27_OrderIndependent ==
    BothWalked =>
       LET last_file == cur.order[2]
           other == WalkFiles(code_book, cur.files, Reverse(cur.order), EmptyMap)
       IN /\ lines = Alone(last_file).lines
          /\ \A n \in NamesOf(lines) :
                snippets[n] = FileSnippets(Alone(last_file).lines)[n]
          /\ NamesOf(Alone(1).lines) \cap NamesOf(Alone(2).lines) = {}
                => (~other.panic /\ snippets = other.snippets)

\* Two files that stamp different names, the second one walked first.
C27_Witness ==
    /\ BothWalked
    /\ cur.order = << 2, 1 >>
    /\ NamesOf(Alone(1).lines) = {"x"}
    /\ NamesOf(Alone(2).lines) = {"z"}
    /\ DOMAIN snippets = {"x", "z"}
    /\ snippets["x"].added = << << 1, 2 >> >>
    /\ snippets["z"].added = << << 2, 3 >> >>

====
